---- MODULE Spec2Model ----
(***************************************************************************)
(* Model of open/bosminer/src/hal.rs: the hardware abstraction core of the *)
(* miner.  Three parts share this module:                                  *)
(*   - the accessors of UniqueMiningWorkSolution (time, time_offset,       *)
(*     version, job, nonce), checked under SpecSol;                        *)
(*   - MiningStats behind Arc<Mutex<..>>, updated by the hardware          *)
(*     contexts that start_hw launches, checked under SpecStats;           *)
(*   - the shutdown messenger (Shutdown, ShutdownSender,                   *)
(*     ShutdownReceiver), checked under SpecShutdown / SpecShutdownFair.   *)
(***************************************************************************)
EXTENDS Integers, Sequences, FiniteSets, TLC

VARIABLES
    work,       \* MiningWork of the UniqueMiningWorkSolution
    solution,   \* MiningWorkSolution of the UniqueMiningWorkSolution
    ret,        \* the last accessor call: [op, res]
    stats,      \* the MiningStats value inside the Mutex
    mutex,      \* the contexts holding a guard of the futures_locks::Mutex
    pc,         \* per hardware context: position in its increment
    sel,        \* per hardware context: the counter it is incrementing
    tmp,        \* per hardware context: the value it read under the lock
    issued,     \* per counter: increments issued so far
    finished,   \* per counter: increments whose guard has been released
    rpc,        \* position of the reporting context taking a snapshot
    snapshot,   \* the last snapshot read, with the increments finished then
    queue,      \* messages in the unbounded channel
    senders,    \* number of live ShutdownSender handles
    rxAlive,    \* the ShutdownReceiver has not been dropped
    rxpc,       \* position of the receiver: idle, pending
    replies,    \* what self.0.next() resolved to, per completed receive()
    received,   \* what receive() returned, per completed receive()
    sent,       \* every message handed to send(), in order
    lastSend    \* the last send(): state it was called in and its outcome

solVars == <<work, solution, ret>>
statVars == <<stats, mutex, pc, sel, tmp, issued, finished, rpc, snapshot>>
shutVars == <<queue, senders, rxAlive, rxpc, replies, received, sent, lastSend>>
vars == <<solVars, statVars, shutVars>>

(***************************************************************************)
(* Bounds of the model                                                     *)
(***************************************************************************)
MaxMidstates == 3
MaxCtx == 2
MaxIncr == 3
MaxSenders == 2
MaxSends == 3
MaxReceives == 2

(***************************************************************************)
(* Fixed-width integers                                                    *)
(***************************************************************************)
\* u16::max_value()
U16Max == 65535
\* The u32 inputs are drawn from 0..TimeTop: TLC's integers are 32-bit
\* signed, and no operation of the accessors on u32 inputs leaves 0..TimeTop.
TimeTop == 2147483646 + 1

None == [some |-> FALSE]
Some(x) == [some |-> TRUE, val |-> x]

Ok(v) == [kind |-> "Ok", val |-> v]
Panic(m) == [kind |-> "Panic", msg |-> m]

\* u32::checked_sub
checked_sub(a, b) == IF a < b THEN None ELSE Some(a - b)

\* `x as u16`: keeps the low 16 bits
as_u16(x) == x % (U16Max + 1)

\* Option::expect
expect(o, m) == IF o.some THEN Ok(o.val) ELSE Panic(m)

(***************************************************************************)
(* Job, work and solution values                                           *)
(***************************************************************************)
JobTypes == {"StratumJob", "TestJob"}
Times == {0, 1, U16Max, U16Max + 1, U16Max + 2, TimeTop}
JobTimes == {0, 1, U16Max + 1, TimeTop}
Versions == {536870912, 536879104}
Nonces == {TimeTop}
SolutionIds == {1}

\* A BitcoinJob implementation: the concrete type behind the trait object and
\* the accessors the solution reads.
Jobs == [type : JobTypes, version : Versions, time : JobTimes]

Midstate(v) == [version |-> v, state |-> v]

SeqsUpTo(S, n) == UNION {[1..k -> S] : k \in 1..n}

Works ==
    {[job |-> j, midstates |-> [i \in DOMAIN vs |-> Midstate(vs[i])], ntime |-> t] :
        j \in Jobs, vs \in SeqsUpTo(Versions, MaxMidstates), t \in {0, 1, U16Max + 2}}

Solutions ==
    [nonce : Nonces,
     ntime : {None} \cup {Some(t) : t \in Times},
     midstate_idx : 0..MaxMidstates,
     solution_id : SolutionIds]

NoRet == [op |-> "none"]

(***************************************************************************)
(* UniqueMiningWorkSolution accessors.  u = [work, solution].              *)
(***************************************************************************)
nonce(u) == u.solution.nonce

\* time() taking a rolled nTime of 0 for "the hardware does not roll nTime"
time_zero_absent(u) ==
    IF u.solution.ntime.some /\ u.solution.ntime.val # 0
    THEN u.solution.ntime.val
    ELSE u.work.ntime

time(u) ==
    IF u.solution.ntime.some THEN u.solution.ntime.val ELSE u.work.ntime

time_offset(u) ==
    LET job_time == u.work.job.time
        offset == expect(checked_sub(time(u), job_time), "job time offset overflow")
    IN  IF offset.kind = "Panic" THEN offset
        ELSE IF ~(offset.val <= U16Max) THEN Panic("assertion failed: offset <= u16::max_value().into()")
        ELSE Ok(as_u16(offset.val))

\* Vec indexing: bounds-checked, panics when the index is out of range.
\* Rust indexes from 0, the sequence from 1.
index(v, i) ==
    IF i < Len(v) THEN Ok(v[i + 1]) ELSE Panic("index out of bounds")

\* version() answering with the version of the job
version_of_job(u) ==
    IF u.solution.midstate_idx < Len(u.work.midstates)
    THEN Ok(u.work.job.version)
    ELSE Panic("index out of bounds")

version(u) ==
    LET i == u.solution.midstate_idx
        m == index(u.work.midstates, i)
    IN  IF m.kind = "Panic" THEN m ELSE Ok(m.val.version)

\* downcast_ref::<T>() of the trait object
downcast_ref(j, T) == IF j.type = T THEN Some(j) ELSE None

job(u, T) == expect(downcast_ref(u.work.job, T), "cannot downcast to original job")

U == [work |-> work, solution |-> solution]

(***************************************************************************)
(* MiningStats behind Arc<Mutex<MiningStats>>                              *)
(***************************************************************************)
Counters ==
    {"work_generated", "stale_solutions", "duplicate_solutions",
     "mismatched_solution_nonces", "unique_solutions"}

Ctx == 1..MaxCtx
\* The reporting context, beside the hardware contexts 1..MaxCtx
Reporter == MaxCtx + 1

MiningStats_new == [c \in Counters |-> 0]

Total(f) == f["work_generated"] + f["stale_solutions"] + f["duplicate_solutions"]
            + f["mismatched_solution_nonces"] + f["unique_solutions"]

(***************************************************************************)
(* Shutdown messenger                                                      *)
(***************************************************************************)
\* ShutdownMsg values the components send
Reasons == {"hchain died", "user abort"}

\* What self.0.next() resolves to; Pending while the stream is not ready.
ReplyNone == [tag |-> "None"]
ReplyErr == [tag |-> "SomeErr"]
ReplyOk(m) == [tag |-> "SomeOk", msg |-> m]
ReplyPending == [tag |-> "Pending"]

\* unbounded_send putting the message in front of what is queued
unbounded_send_lifo(q, alive, m) ==
    IF alive THEN [res |-> Ok("unit"), queue |-> <<m>> \o q]
    ELSE [res |-> [kind |-> "Err"], queue |-> q]

\* a channel of capacity one: the send fails while a message is queued
unbounded_send_bounded(q, alive, m) ==
    IF alive /\ q = <<>> THEN [res |-> Ok("unit"), queue |-> Append(q, m)]
    ELSE [res |-> [kind |-> "Err"], queue |-> q]

\* mpsc::UnboundedSender::unbounded_send: enqueues behind what is queued, and
\* fails only when the receiver is gone.  It never waits.
unbounded_send(q, alive, m) ==
    IF alive THEN [res |-> Ok("unit"), queue |-> Append(q, m)]
    ELSE [res |-> [kind |-> "Err"], queue |-> q]

\* Result::expect
expect_ok(r, m) == IF r.kind = "Ok" THEN r ELSE Panic(m)

\* a stream that reports its end as soon as every sender is dropped
next_closed_first(q, n) ==
    IF n = 0 THEN ReplyNone
    ELSE IF q # <<>> THEN ReplyOk(Head(q))
    ELSE ReplyPending

\* mpsc::UnboundedReceiver as a Stream: queued messages first, then the end of
\* the stream once every sender is dropped.  Its Error type is (), and it
\* yields no Some(Err(_)).
next(q, n) ==
    IF q # <<>> THEN ReplyOk(Head(q))
    ELSE IF n = 0 THEN ReplyNone
    ELSE ReplyPending

\* the match with the messages of its first two arms exchanged
receive_msg_swapped(reply) ==
    CASE reply.tag = "None" -> "unexpected error when receiving shutdown message"
      [] reply.tag = "SomeErr" -> "all hchains died"
      [] reply.tag = "SomeOk" -> reply.msg

\* The match of ShutdownReceiver::receive
receive_msg(reply) ==
    CASE reply.tag = "None" -> "all hchains died"
      [] reply.tag = "SomeErr" -> "unexpected error when receiving shutdown message"
      [] reply.tag = "SomeOk" -> reply.msg

\* The statistics and the messenger as constructed: MiningStats::new() inside
\* a free Mutex with every context at rest; Shutdown::new() and split(): one
\* sender, one receiver, nothing queued.
InitSol ==
    /\ work \in Works
    /\ solution \in Solutions
    /\ ret = NoRet
    /\ stats = MiningStats_new
    /\ mutex = {}
    /\ pc = [c \in Ctx |-> "idle"]
    /\ sel = [c \in Ctx |-> "work_generated"]
    /\ tmp = [c \in Ctx |-> 0]
    /\ issued = [k \in Counters |-> 0]
    /\ finished = [k \in Counters |-> 0]
    /\ rpc = "idle"
    /\ snapshot = None
    /\ queue = <<>>
    /\ senders = 1
    /\ rxAlive = TRUE
    /\ rxpc = "idle"
    /\ replies = <<>>
    /\ received = <<>>
    /\ sent = <<>>
    /\ lastSend = None

Call_nonce ==
    /\ ret' = [op |-> "nonce", res |-> Ok(nonce(U))]
    /\ UNCHANGED <<work, solution, statVars, shutVars>>

Call_time ==
    /\ ret' = [op |-> "time", res |-> Ok(time(U))]
    /\ UNCHANGED <<work, solution, statVars, shutVars>>

Call_time_offset ==
    /\ ret' = [op |-> "time_offset", res |-> time_offset(U)]
    /\ UNCHANGED <<work, solution, statVars, shutVars>>

Call_version ==
    /\ ret' = [op |-> "version", res |-> version(U)]
    /\ UNCHANGED <<work, solution, statVars, shutVars>>

Call_job ==
    \E T \in JobTypes :
        /\ ret' = [op |-> "job", T |-> T, res |-> job(U, T)]
        /\ UNCHANGED <<work, solution, statVars, shutVars>>

NextSol ==
    \/ Call_nonce
    \/ Call_time
    \/ Call_time_offset
    \/ Call_version
    \/ Call_job

SpecSol == InitSol /\ [][NextSol]_vars

\* One solution at rest, for the statistics and the messenger.
OneWork ==
    [job |-> [type |-> "StratumJob", version |-> 536870912, time |-> 0],
     midstates |-> <<Midstate(536870912)>>, ntime |-> 0]

OneSolution == [nonce |-> 0, ntime |-> None, midstate_idx |-> 0, solution_id |-> 1]

Init ==
    /\ work = OneWork
    /\ solution = OneSolution
    /\ ret = NoRet
    /\ stats = MiningStats_new
    /\ mutex = {}
    /\ pc = [c \in Ctx |-> "idle"]
    /\ sel = [c \in Ctx |-> "work_generated"]
    /\ tmp = [c \in Ctx |-> 0]
    /\ issued = [k \in Counters |-> 0]
    /\ finished = [k \in Counters |-> 0]
    /\ rpc = "idle"
    /\ snapshot = None
    /\ queue = <<>>
    /\ senders = 1
    /\ rxAlive = TRUE
    /\ rxpc = "idle"
    /\ replies = <<>>
    /\ received = <<>>
    /\ sent = <<>>
    /\ lastSend = None

(***************************************************************************)
(* A hardware context increments one counter: it takes the lock, reads    *)
(* the counter, writes it back plus one and drops the guard.               *)
(***************************************************************************)
Begin(c) ==
    \E k \in Counters :
        /\ pc[c] = "idle"
        /\ Total(issued) < MaxIncr
        /\ pc' = [pc EXCEPT ![c] = "lock"]
        /\ sel' = [sel EXCEPT ![c] = k]
        /\ issued' = [issued EXCEPT ![k] = @ + 1]
        /\ UNCHANGED <<stats, mutex, tmp, finished, rpc, snapshot, solVars, shutVars>>

\* the statistics shared without the lock
CanLock_unguarded == TRUE

\* Mutex::lock() resolves once no other guard is alive.
CanLock == mutex = {}

Acquire(c) ==
    /\ pc[c] = "lock"
    /\ CanLock
    /\ mutex' = mutex \cup {c}
    /\ pc' = [pc EXCEPT ![c] = "held"]
    /\ UNCHANGED <<stats, sel, tmp, issued, finished, rpc, snapshot, solVars, shutVars>>

Load(c) ==
    /\ pc[c] = "held"
    /\ tmp' = [tmp EXCEPT ![c] = stats[sel[c]]]
    /\ pc' = [pc EXCEPT ![c] = "loaded"]
    /\ UNCHANGED <<stats, mutex, sel, issued, finished, rpc, snapshot, solVars, shutVars>>

Store(c) ==
    /\ pc[c] = "loaded"
    /\ stats' = [stats EXCEPT ![sel[c]] = tmp[c] + 1]
    /\ pc' = [pc EXCEPT ![c] = "stored"]
    /\ UNCHANGED <<mutex, sel, tmp, issued, finished, rpc, snapshot, solVars, shutVars>>

Release(c) ==
    /\ pc[c] = "stored"
    /\ mutex' = mutex \ {c}
    /\ pc' = [pc EXCEPT ![c] = "idle"]
    /\ finished' = [finished EXCEPT ![sel[c]] = @ + 1]
    /\ UNCHANGED <<stats, sel, tmp, issued, rpc, snapshot, solVars, shutVars>>

\* The reporting context reads all counters under one critical section.
ReadLock ==
    /\ rpc = "idle"
    /\ CanLock
    /\ mutex' = mutex \cup {Reporter}
    /\ rpc' = "held"
    /\ UNCHANGED <<stats, pc, sel, tmp, issued, finished, snapshot, solVars, shutVars>>

ReadSnapshot ==
    /\ rpc = "held"
    /\ snapshot' = Some([stats |-> stats, finished |-> finished])
    /\ rpc' = "read"
    /\ UNCHANGED <<stats, mutex, pc, sel, tmp, issued, finished, solVars, shutVars>>

ReadRelease ==
    /\ rpc = "read"
    /\ mutex' = mutex \ {Reporter}
    /\ rpc' = "idle"
    /\ UNCHANGED <<stats, pc, sel, tmp, issued, finished, snapshot, solVars, shutVars>>

NextStats ==
    \/ \E c \in Ctx : Begin(c)
    \/ \E c \in Ctx : Acquire(c)
    \/ \E c \in Ctx : Load(c)
    \/ \E c \in Ctx : Store(c)
    \/ \E c \in Ctx : Release(c)
    \/ ReadLock
    \/ ReadSnapshot
    \/ ReadRelease

(***************************************************************************)
(* Shutdown messenger: operations                                          *)
(***************************************************************************)
\* #[derive(Clone)] on ShutdownSender
Clone ==
    /\ senders >= 1
    /\ senders < MaxSenders
    /\ senders' = senders + 1
    /\ UNCHANGED <<queue, rxAlive, rxpc, replies, received, sent, lastSend, solVars, statVars>>

DropSender ==
    /\ senders >= 1
    /\ senders' = senders - 1
    /\ UNCHANGED <<queue, rxAlive, rxpc, replies, received, sent, lastSend, solVars, statVars>>

\* The receiver is dropped while no receive() borrows it.
DropReceiver ==
    /\ rxAlive
    /\ rxpc = "idle"
    /\ rxAlive' = FALSE
    /\ queue' = <<>>
    /\ UNCHANGED <<senders, rxpc, replies, received, sent, lastSend, solVars, statVars>>

send(msg) ==
    LET r == unbounded_send(queue, rxAlive, msg)
        out == expect_ok(r.res, "send failed")
    IN  /\ senders >= 1
        /\ Len(sent) < MaxSends
        /\ queue' = r.queue
        /\ sent' = IF out.kind = "Ok" THEN Append(sent, msg) ELSE sent
        /\ lastSend' = Some([msg |-> msg, rxAlive |-> rxAlive, before |-> queue,
                             after |-> r.queue, out |-> out])
        /\ UNCHANGED <<senders, rxAlive, rxpc, replies, received, solVars, statVars>>

\* receive() is called and awaits self.0.next()
ReceiveCall ==
    /\ rxAlive
    /\ rxpc = "idle"
    /\ Len(received) < MaxReceives
    /\ rxpc' = "pending"
    /\ UNCHANGED <<queue, senders, rxAlive, replies, received, sent, lastSend, solVars, statVars>>

\* the awaited stream is ready: receive() returns
ReceiveResolve ==
    LET reply == next(queue, senders)
    IN  /\ rxpc = "pending"
        /\ reply.tag # "Pending"
        /\ queue' = IF reply.tag = "SomeOk" THEN Tail(queue) ELSE queue
        /\ replies' = Append(replies, reply)
        /\ received' = Append(received, receive_msg(reply))
        /\ rxpc' = "idle"
        /\ UNCHANGED <<senders, rxAlive, sent, lastSend, solVars, statVars>>

NextShutdown ==
    \/ Clone
    \/ DropSender
    \/ DropReceiver
    \/ \E m \in Reasons : send(m)
    \/ ReceiveCall
    \/ ReceiveResolve

SpecShutdown == Init /\ [][NextShutdown]_vars

\* A receive() whose stream is ready is polled again: the channel wakes the
\* receiving task on every send and on the drop of the last sender.
SpecShutdownFair == SpecShutdown /\ WF_vars(ReceiveResolve)

SpecStats == Init /\ [][NextStats]_vars

(***************************************************************************)
(* Properties                                                              *)
(***************************************************************************)
AllIdle == \A c \in Ctx : pc[c] = "idle"

\* C1: time_offset() succeeds iff 0 <= time() - job.time() <= 65535 and then
\* returns that difference; outside that range it fails with an error that is
\* returned to the caller (an Err value), never a wrapped or truncated value.
C1_ErrorSurfaced ==
    ret.op = "time_offset" =>
        LET d == time(U) - work.job.time
        IN  IF 0 <= d /\ d <= 65535
            THEN ret.res = Ok(d)
            ELSE ret.res.kind = "Err"

\* C1, its case: the solution time is older than the job time and
\* time_offset() has been called.
C1_Underflow ==
    /\ ret.op = "time_offset"
    /\ time(U) < work.job.time
    /\ ret.res = Panic("job time offset overflow")

\* C2: with midstate_idx >= len(midstates), version() fails with an
\* out-of-range error returned to the caller and does not panic.
C2_OutOfRangeIsError ==
    (ret.op = "version" /\ solution.midstate_idx >= Len(work.midstates)) =>
        ret.res.kind = "Err"

\* C2, its case: version() called with an index one past the last midstate.
C2_OutOfRange ==
    /\ ret.op = "version"
    /\ solution.midstate_idx = Len(work.midstates)
    /\ ret.res.kind = "Panic"

\* C3: the first receive() returns the reason enqueued first, whatever the
\* number of sends and of sender clones, and takes exactly that one reason
\* out of the channel.
C3_FirstSentIsReceived ==
    (sent # <<>> /\ received # <<>>) =>
        /\ received[1] = sent[1]
        /\ (Len(received) = 1 /\ rxAlive) => sent = <<received[1]>> \o queue

\* C3, its case: several sends of different reasons, sender clones alive, one
\* receive() completed and the later reasons still queued.
C3_SeveralSendsOneReceive ==
    /\ Len(sent) >= 2
    /\ sent[1] # sent[2]
    /\ senders >= 2
    /\ Len(received) = 1
    /\ received[1] = sent[1]
    /\ queue = Tail(sent)

\* C4: once every sender is dropped with nothing ever sent, a pending
\* receive() eventually returns "all hchains died", which is not the message
\* of the transport-error arm.
C4_Dropped == senders = 0 /\ sent = <<>> /\ rxpc = "pending"

C4_Resolved ==
    /\ rxpc = "idle"
    /\ received # <<>>
    /\ received[Len(received)] = "all hchains died"
    /\ received[Len(received)] # receive_msg(ReplyErr)

C4_AllDiedResolves == C4_Dropped ~> C4_Resolved

\* C4, its case: all senders dropped unsent and the receive() has returned.
C4_SentinelReceived ==
    /\ senders = 0
    /\ sent = <<>>
    /\ replies = <<ReplyNone>>
    /\ received = <<"all hchains died">>

\* C5: counters start at zero and no increment is lost: when no increment is
\* in progress every counter equals the number of increments issued on it,
\* and a snapshot read under the lock equals the increments finished then.
C5_NoLostUpdates ==
    /\ AllIdle => \A k \in Counters : stats[k] = issued[k]
    /\ snapshot.some =>
           \A k \in Counters : snapshot.val.stats[k] = snapshot.val.finished[k]
    /\ (\A k \in Counters : issued[k] = 0) => \A k \in Counters : stats[k] = 0

\* C5, its case: several increments of one counter are done, all contexts are
\* back at rest and a snapshot has read them.
C5_IncrementsDone ==
    /\ AllIdle
    /\ issued["unique_solutions"] >= 3
    /\ stats["unique_solutions"] = issued["unique_solutions"]
    /\ snapshot.some
    /\ snapshot.val.stats["unique_solutions"] = issued["unique_solutions"]

\* C6: send() never waits and, while the receiver exists, succeeds and
\* enqueues the reason, however many reasons are queued already.
C6_SendSucceeds ==
    /\ (lastSend.some /\ lastSend.val.rxAlive) =>
           /\ lastSend.val.out.kind = "Ok"
           /\ lastSend.val.after = Append(lastSend.val.before, lastSend.val.msg)
    /\ \A m \in Reasons :
           (senders >= 1 /\ Len(sent) < MaxSends) => ENABLED send(m)

\* C6, its case: a send with reasons already queued and a receiver that has
\* consumed nothing.
C6_SendOnQueued ==
    /\ lastSend.some
    /\ lastSend.val.rxAlive
    /\ Len(lastSend.val.before) >= 2
    /\ lastSend.val.out.kind = "Ok"
    /\ received = <<>>
    /\ rxpc = "idle"

\* C7: with midstate_idx = i in range, version() is exactly
\* midstates[i].version, whatever the job's version and the other midstates.
C7_VersionOfMidstate ==
    (ret.op = "version" /\ solution.midstate_idx < Len(work.midstates)) =>
        ret.res = Ok(work.midstates[solution.midstate_idx + 1].version)

\* C7, its case: version() on the second midstate, whose version differs from
\* the first midstate's and from the job's.
C7_SecondMidstate ==
    /\ ret.op = "version"
    /\ solution.midstate_idx = 1
    /\ Len(work.midstates) >= 2
    /\ work.midstates[2].version # work.midstates[1].version
    /\ work.midstates[2].version # work.job.version
    /\ ret.res.kind = "Ok"

\* C8: time() is solution.ntime when present (0 included), else work.ntime.
C8_TimeSource ==
    ret.op = "time" =>
        /\ solution.ntime.some => ret.res = Ok(solution.ntime.val)
        /\ ~solution.ntime.some => ret.res = Ok(work.ntime)

\* C8, its case: time() with a rolled nTime of 0 that differs from the work's
\* nTime and from the job's time.
C8_RolledZero ==
    /\ ret.op = "time"
    /\ solution.ntime = Some(0)
    /\ work.ntime # 0
    /\ work.job.time # 0
    /\ ret.res = Ok(0)

\* C9: job<T>() returns the stored job when its concrete type is T, and for
\* another type fails with an error for that solution alone (an Err value),
\* the hosting context going on.
C9_DowncastFailureIsLocal ==
    ret.op = "job" =>
        IF ret.T = work.job.type
        THEN ret.res = Ok(work.job)
        ELSE ret.res.kind = "Err"

\* C9, its case: job<T>() called for a type the stored job is not.
C9_WrongType ==
    /\ ret.op = "job"
    /\ ret.T # work.job.type
    /\ ret.res = Panic("cannot downcast to original job")

\* C10: receive() resolves from the end of the stream only with the queue
\* empty and every sender dropped, after all sent reasons were delivered; if
\* anything was sent, the first receive() resolves to the first sent reason.
C10_SentinelOnlyWhenDrained ==
    /\ \A i \in DOMAIN replies :
           replies[i].tag = "None" =>
               /\ queue = <<>>
               /\ senders = 0
               /\ Len(sent) < i
               /\ received[i] = "all hchains died"
    /\ (sent # <<>> /\ replies # <<>>) => replies[1] = ReplyOk(sent[1])

\* C10, its case: a reason sent, the last sender dropped, then two receives:
\* the reason first, the sentinel second.
C10_ReasonThenSentinel ==
    /\ Len(sent) = 1
    /\ senders = 0
    /\ Len(replies) = 2
    /\ replies[1] = ReplyOk(sent[1])
    /\ replies[2] = ReplyNone

====
